---- MODULE Spec2Model ----
(***************************************************************************)
(* Wilson's algorithm maze generation, src/src/mazes.rs.                   *)
(* Maze::new, generate_loop_erased_random_walk and                         *)
(* generate_candidate_cells as a state machine.  Indices are zero-based as *)
(* in the source; a cell index is a pair <<x, y>>.                         *)
(***************************************************************************)
EXTENDS Integers, Sequences, FiniteSets, TLC

\* Largest x_size / y_size passed to Maze::new.
MaxSize == 7
\* Largest number of necessary cells of a grid that is explored.
MaxNodes == 6
\* Largest number of random steps recorded in one walk.
MaxSteps == 5
\* Largest x_size / y_size of the grids on which a first walk is explored.
FirstWalkMaxSize == 7
\* Largest number of step choices of a whole run given as a sequence.
MaxChoices == 4
\* Largest index of a candidate in such a sequence.
MaxChoiceValue == 2
\* Largest number of necessary cells of a grid whose runs are computed from
\* an order and a sequence of choices.
RunMaxNodes == 4
\* Largest number of necessary cells of a grid explored under fairness.
FairMaxNodes == 4

VARIABLES pc, x_size, y_size, cells, necessary_cells, idx, random_walk,
          current_pos, walks

vars == <<pc, x_size, y_size, cells, necessary_cells, idx, random_walk,
          current_pos, walks>>

\* CellType
Wall == "Wall"
Path == "Path"

\* Number of values of (1..n).step_by(2)
StepBy2Count(n) == n \div 2

\* The arguments of Maze::new that are explored.
Sizes == {s \in (0..MaxSize) \X (0..MaxSize) :
            StepBy2Count(s[1]) * StepBy2Count(s[2]) <= MaxNodes}

\* Index check of self.cells[c.0][c.1]
InBounds(c) == c \in DOMAIN cells

\* vec![vec![CellType::Wall; y_size]; x_size]
AllWall(xs, ys) == [c \in (0..(xs - 1)) \X (0..(ys - 1)) |-> Wall]

\* Variant: both loops start at 3 instead of 1.
EnumerateFromThree(xs, ys) ==
    LET ny == StepBy2Count(ys) - 1
    IN  [k \in 1..((StepBy2Count(xs) - 1) * ny) |->
            <<2 * ((k - 1) \div ny) + 3, 2 * ((k - 1) % ny) + 3>>]

\* The nested step_by(2) loops that fill necessary_cells, in push order.
EnumerateNecessary(xs, ys) ==
    LET ny == StepBy2Count(ys)
    IN  [k \in 1..(StepBy2Count(xs) * ny) |->
            <<2 * ((k - 1) \div ny) + 1, 2 * ((k - 1) % ny) + 1>>]

\* Variant: the Left and Up moves are never offered.
CandidatesForwardOnly(size, pos) ==
    (IF pos[1] < size[1] - 2
        THEN << << <<pos[1] + 1, pos[2]>>, <<pos[1] + 2, pos[2]>> >> >>
        ELSE << >>)
    \o (IF pos[2] < size[2] - 2
        THEN << << <<pos[1], pos[2] + 1>>, <<pos[1], pos[2] + 2>> >> >>
        ELSE << >>)

\* Variant: the Right and Down tests compare with size - 1.
CandidatesOffByOne(size, pos) ==
    (IF pos[1] > 1
        THEN << << <<pos[1] - 1, pos[2]>>, <<pos[1] - 2, pos[2]>> >> >>
        ELSE << >>)
    \o (IF pos[1] < size[1] - 1
        THEN << << <<pos[1] + 1, pos[2]>>, <<pos[1] + 2, pos[2]>> >> >>
        ELSE << >>)
    \o (IF pos[2] > 1
        THEN << << <<pos[1], pos[2] - 1>>, <<pos[1], pos[2] - 2>> >> >>
        ELSE << >>)
    \o (IF pos[2] < size[2] - 1
        THEN << << <<pos[1], pos[2] + 1>>, <<pos[1], pos[2] + 2>> >> >>
        ELSE << >>)

\* Variant: the Left and Up tests compare with 0.
CandidatesLowOffByOne(size, pos) ==
    (IF pos[1] > 0
        THEN << << <<pos[1] - 1, pos[2]>>, <<pos[1] - 2, pos[2]>> >> >>
        ELSE << >>)
    \o (IF pos[1] < size[1] - 2
        THEN << << <<pos[1] + 1, pos[2]>>, <<pos[1] + 2, pos[2]>> >> >>
        ELSE << >>)
    \o (IF pos[2] > 0
        THEN << << <<pos[1], pos[2] - 1>>, <<pos[1], pos[2] - 2>> >> >>
        ELSE << >>)
    \o (IF pos[2] < size[2] - 2
        THEN << << <<pos[1], pos[2] + 1>>, <<pos[1], pos[2] + 2>> >> >>
        ELSE << >>)

\* generate_candidate_cells: Left, Right, Up, Down, each [mid, dest].
generate_candidate_cells(size, pos) ==
    (IF pos[1] > 1
        THEN << << <<pos[1] - 1, pos[2]>>, <<pos[1] - 2, pos[2]>> >> >>
        ELSE << >>)
    \o (IF pos[1] < size[1] - 2
        THEN << << <<pos[1] + 1, pos[2]>>, <<pos[1] + 2, pos[2]>> >> >>
        ELSE << >>)
    \o (IF pos[2] > 1
        THEN << << <<pos[1], pos[2] - 1>>, <<pos[1], pos[2] - 2>> >> >>
        ELSE << >>)
    \o (IF pos[2] < size[2] - 2
        THEN << << <<pos[1], pos[2] + 1>>, <<pos[1], pos[2] + 2>> >> >>
        ELSE << >>)

\* random_walk[k] with the zero-based index of the source
At(w, k) == w[k + 1]

\* Variant: drain(i..=j), the later occurrence is removed too.
DrainThrough(w, i, j) == SubSeq(w, 1, i) \o SubSeq(w, j + 2, Len(w))

\* random_walk.drain(i..j): removes the zero-based indices i .. j-1
Drain(w, i, j) == SubSeq(w, 1, i) \o SubSeq(w, j + 1, Len(w))

\* Variant: j runs upwards, so the nearest match is taken, not the furthest.
FindDupNearest(w, i) ==
    LET J == {j \in (i + 1)..(Len(w) - 2) : At(w, j) = At(w, i)}
    IN  IF J = {} THEN -1 ELSE CHOOSE j \in J : \A k \in J : j <= k

\* The inner for loop: j runs over ((i+1)..(len-1)).rev() and stops at the
\* first (that is, the largest) j whose cell equals random_walk[i]; -1 when
\* no j matches.
FindDup(w, i) ==
    LET J == {j \in (i + 1)..(Len(w) - 2) : At(w, j) = At(w, i)}
    IN  IF J = {} THEN -1 ELSE CHOOSE j \in J : \A k \in J : k <= j

\* Variant: a match is found but nothing is drained.
EraseAtKeep(w, i) == w

\* One iteration of the outer while loop at index i.
EraseAt(w, i) ==
    LET j == FindDup(w, i)
    IN  IF j >= 0 THEN Drain(w, i, j) ELSE w

\* The outer while loop from index i on (v: the walk after the iteration
\* at index i).
RECURSIVE EraseFrom(_, _)
EraseFrom(w, i) ==
    IF i < Len(w)
       THEN CHOOSE r \in {EraseFrom(v, i + 1) : v \in {EraseAt(w, i)}} : TRUE
       ELSE w

\* The loop erasure of generate_loop_erased_random_walk.
EraseLoops(w) == EraseFrom(w, 0)

\* Cells of a sequence
Cells(w) == {w[k] : k \in 1..Len(w)}

\* Variant: only the cells with both coordinates odd are marked.
MarkPathNodesOnly(g, w) ==
    [c \in DOMAIN g |->
        IF c \in Cells(w) /\ c[1] % 2 = 1 /\ c[2] % 2 = 1 THEN Path ELSE g[c]]

\* for cell in walk { maze.cells[cell.0][cell.1] = Path }
MarkPath(g, w) == [c \in DOMAIN g |-> IF c \in Cells(w) THEN Path ELSE g[c]]

Init ==
    /\ pc = "start"
    /\ \E s \in Sizes : x_size = s[1] /\ y_size = s[2]
    /\ cells = [c \in {} |-> Wall]
    /\ necessary_cells = << >>
    /\ idx = 0
    /\ random_walk = << >>
    /\ current_pos = <<0, 0>>
    /\ walks = 0

\* Variant: && in place of ||.
SizesRejectedBoth(xs, ys) == xs % 2 = 0 /\ ys % 2 = 0

\* if x_size % 2 == 0 || y_size % 2 == 0 { return Err(..) }
SizesRejected(xs, ys) == xs % 2 = 0 \/ ys % 2 = 0

CheckSizes ==
    /\ pc = "start"
    /\ pc' = IF SizesRejected(x_size, y_size) THEN "err" ELSE "alloc"
    /\ UNCHANGED <<x_size, y_size, cells, necessary_cells, idx, random_walk,
                   current_pos, walks>>

Alloc ==
    /\ pc = "alloc"
    /\ cells' = AllWall(x_size, y_size)
    /\ pc' = "seed"
    /\ UNCHANGED <<x_size, y_size, necessary_cells, idx, random_walk,
                   current_pos, walks>>

\* The seed cell
SeedCell == <<1, 1>>

\* maze.cells[1][1] = CellType::Path; an index out of bounds panics.
Seed ==
    /\ pc = "seed"
    /\ IF InBounds(SeedCell)
          THEN /\ cells' = [cells EXCEPT ![SeedCell] = Path]
               /\ pc' = "enumerate"
          ELSE /\ pc' = "panic"
               /\ UNCHANGED cells
    /\ UNCHANGED <<x_size, y_size, necessary_cells, idx, random_walk,
                   current_pos, walks>>

Enumerate ==
    /\ pc = "enumerate"
    /\ necessary_cells' = EnumerateNecessary(x_size, y_size)
    /\ pc' = "shuffle"
    /\ UNCHANGED <<x_size, y_size, cells, idx, random_walk, current_pos,
                   walks>>

\* necessary_cells.shuffle(&mut thread_rng()): any permutation.
Shuffle ==
    /\ pc = "shuffle"
    /\ \E p \in Permutations(1..Len(necessary_cells)) :
          necessary_cells' = [k \in 1..Len(necessary_cells) |->
                                 necessary_cells[p[k]]]
    /\ idx' = 1
    /\ pc' = "loop"
    /\ UNCHANGED <<x_size, y_size, cells, random_walk, current_pos, walks>>

\* Variant: the test is missing.
NeedsWalkAlways(g, c) == TRUE

\* Variant: the test is inverted.
NeedsWalkInverted(g, c) == g[c] = Path

\* if maze.cells[walk_start_point.0][walk_start_point.1] == CellType::Wall
NeedsWalk(g, c) == g[c] = Wall

\* One iteration of `for walk_start_point in necessary_cells` up to the call
\* of generate_loop_erased_random_walk (which pushes the starting point).
LoopNext ==
    /\ pc = "loop"
    /\ idx <= Len(necessary_cells)
    /\ LET c == necessary_cells[idx]
       IN  IF ~InBounds(c)
              THEN /\ pc' = "panic"
                   /\ UNCHANGED <<idx, random_walk, current_pos, walks>>
              ELSE IF NeedsWalk(cells, c)
                      THEN /\ random_walk' = <<c>>
                           /\ current_pos' = c
                           /\ walks' = walks + 1
                           /\ pc' = "walk"
                           /\ UNCHANGED idx
                      ELSE /\ idx' = idx + 1
                           /\ UNCHANGED <<pc, random_walk, current_pos, walks>>
    /\ UNCHANGED <<x_size, y_size, cells, necessary_cells>>

\* The for loop is exhausted: Ok(maze)
LoopDone ==
    /\ pc = "loop"
    /\ idx > Len(necessary_cells)
    /\ pc' = "done"
    /\ UNCHANGED <<x_size, y_size, cells, necessary_cells, idx, random_walk,
                   current_pos, walks>>

\* The recorded walk has reached the bound of the exploration.
WalkCapped == Len(random_walk) >= 1 + 2 * MaxSteps

\* Variant: the walk carves as it goes.
TakeStepCarving(step) ==
    /\ random_walk' = random_walk \o <<step[1], step[2]>>
    /\ current_pos' = step[2]
    /\ cells' = [c \in DOMAIN cells |->
                    IF c = step[1] \/ c = step[2] THEN Path ELSE cells[c]]
    /\ UNCHANGED pc

\* Variant: the two cells of a step are pushed in the wrong order.
TakeStepSwapped(step) ==
    /\ random_walk' = random_walk \o <<step[2], step[1]>>
    /\ current_pos' = step[2]
    /\ UNCHANGED <<pc, cells>>

\* The effect of one chosen step on the walk.
TakeStep(step) ==
    /\ random_walk' = random_walk \o <<step[1], step[2]>>
    /\ current_pos' = step[2]
    /\ UNCHANGED <<pc, cells>>

\* One iteration of the while loop of the random walk: choose() of an empty
\* list is None and unwrap panics; reading a cell out of bounds panics.
Step ==
    /\ pc = "walk"
    /\ ~WalkCapped
    /\ IF ~InBounds(current_pos)
          THEN /\ pc' = "panic"
               /\ UNCHANGED <<cells, random_walk, current_pos>>
          ELSE /\ cells[current_pos] = Wall
               /\ LET cands == generate_candidate_cells(<<x_size, y_size>>,
                                                        current_pos)
                  IN  IF Len(cands) = 0
                         THEN /\ pc' = "panic"
                              /\ UNCHANGED <<cells, random_walk, current_pos>>
                         ELSE \E k \in 1..Len(cands) : TakeStep(cands[k])
    /\ UNCHANGED <<x_size, y_size, necessary_cells, idx, walks>>

\* The walk has reached a Path cell; the loops are erased in place.
Erase ==
    /\ pc = "walk"
    /\ InBounds(current_pos)
    /\ cells[current_pos] = Path
    /\ random_walk' = EraseLoops(random_walk)
    /\ pc' = "commit"
    /\ UNCHANGED <<x_size, y_size, cells, necessary_cells, idx, current_pos,
                   walks>>

\* for cell in walk { maze.cells[cell.0][cell.1] = CellType::Path; }
Commit ==
    /\ pc = "commit"
    /\ IF Cells(random_walk) \subseteq DOMAIN cells
          THEN /\ cells' = MarkPath(cells, random_walk)
               /\ idx' = idx + 1
               /\ pc' = "loop"
          ELSE /\ pc' = "panic"
               /\ UNCHANGED <<cells, idx>>
    /\ UNCHANGED <<x_size, y_size, necessary_cells, random_walk, current_pos,
                   walks>>

Next ==
    \/ CheckSizes
    \/ Alloc
    \/ Seed
    \/ Enumerate
    \/ Shuffle
    \/ LoopNext
    \/ LoopDone
    \/ Step
    \/ Erase
    \/ Commit

Spec == Init /\ [][Next]_vars

\* The program runs to its end; every step of the walk that is offered
\* again and again is eventually taken.
FairInit ==
    /\ Init
    /\ StepBy2Count(x_size) * StepBy2Count(y_size) <= FairMaxNodes

FairSpec == FairInit /\ [][Next]_vars /\ WF_vars(Next) /\ SF_vars(Step)

(***************************************************************************)
(* Vocabulary of the properties.                                           *)
(***************************************************************************)

\* Both dimensions odd and at least 3.
ValidSizes == x_size % 2 = 1 /\ y_size % 2 = 1 /\ x_size >= 3 /\ y_size >= 3

\* All coordinates of the grid.
Coords == (0..(x_size - 1)) \X (0..(y_size - 1))

\* Node cells: both coordinates odd, inside the grid.
NodeCells == {c \in Coords : c[1] % 2 = 1 /\ c[2] % 2 = 1}

\* Separator cells: every other cell of the grid.
SeparatorCells == Coords \ NodeCells

\* The Path cells of the grid.
PathCells == {c \in DOMAIN cells : cells[c] = Path}

\* Two cells one grid unit apart along one axis.
Adjacent(a, b) ==
    \/ a[1] = b[1] /\ (a[2] = b[2] + 1 \/ b[2] = a[2] + 1)
    \/ a[2] = b[2] /\ (a[1] = b[1] + 1 \/ b[1] = a[1] + 1)

\* The cells of `within` joined to a cell of `from` by unit steps in `within`.
RECURSIVE Flood(_, _)
Flood(from, within) ==
    LET more == {c \in within \ from : \E d \in from : Adjacent(c, d)}
    IN  IF more = {} THEN from
        ELSE CHOOSE r \in {Flood(f, within) : f \in {from \cup more}} : TRUE

\* No coordinate occurs twice in w.
NoRepeat(w) == \A a, b \in 1..Len(w) : w[a] = w[b] => a = b

\* The grid that has the seed cell Path and every other cell Wall.
SeedOnly == [c \in Coords |-> IF c = <<1, 1>> THEN Path ELSE Wall]

\* The random walk has just reached a cell of the maze: the recorded walk is
\* the raw walk, the erasure has not run yet.
RawWalkComplete ==
    pc = "walk" /\ current_pos \in DOMAIN cells /\ cells[current_pos] = Path

\* The node cells a walk standing on `from` can get to by legal steps.
RECURSIVE WalkReach(_)
WalkReach(from) ==
    LET more == (UNION {
                  LET cands == generate_candidate_cells(<<x_size, y_size>>, c)
                  IN  {cands[k][2] : k \in 1..Len(cands)} : c \in from}) \ from
    IN  IF more = {} THEN from
        ELSE CHOOSE r \in {WalkReach(f) : f \in {from \cup more}} : TRUE

(***************************************************************************)
(* C1.  For odd sizes >= 3, whatever the shuffle and the random steps,     *)
(* when Maze::new returns Ok every node cell is Path.                      *)
(***************************************************************************)
C1_AllNodesPath ==
    (pc = "done" /\ ValidSizes) => \A c \in NodeCells : cells[c] = Path

C1_Witness ==
    pc = "done" /\ x_size = 7 /\ y_size = 5 /\ walks >= 2

(***************************************************************************)
(* C2.  For odd sizes >= 3, in the returned grid any two node cells are    *)
(* joined by Path cells, consecutive ones one grid unit apart.             *)
(***************************************************************************)
C2_Connected ==
    (pc = "done" /\ ValidSizes) =>
        \A c \in NodeCells :
            c \in PathCells /\ NodeCells \subseteq Flood({c}, PathCells)

C2_Witness ==
    pc = "done" /\ x_size = 5 /\ y_size = 7 /\ walks >= 3

(***************************************************************************)
(* C3.  For odd sizes >= 3, in the returned grid the number of Path        *)
(* separator cells is the number of node cells minus one; new(5,5) ends    *)
(* with exactly 4 Path node cells and exactly 3 Path separator cells.      *)
(***************************************************************************)
C3_TreeEdgeCount ==
    (pc = "done" /\ ValidSizes) =>
        /\ Cardinality(PathCells \cap SeparatorCells)
              = Cardinality(NodeCells) - 1
        /\ (x_size = 5 /\ y_size = 5) =>
              /\ Cardinality(PathCells \cap NodeCells) = 4
              /\ Cardinality(PathCells \cap SeparatorCells) = 3

C3_Witness ==
    /\ pc = "done" /\ x_size = 5 /\ y_size = 5
    /\ Cardinality(PathCells \cap SeparatorCells) = 3

(***************************************************************************)
(* C4.  With an even width or height (0 included) Maze::new returns the    *)
(* error before a grid is allocated, a cell is set to Path or a walk is    *)
(* started, and returns no maze.                                           *)
(***************************************************************************)
C4_EvenRejected ==
    (x_size % 2 = 0 \/ y_size % 2 = 0) =>
        /\ pc \in {"start", "err"}
        /\ DOMAIN cells = {}
        /\ necessary_cells = << >>
        /\ walks = 0

C4_Witness ==
    pc = "err" /\ x_size = 4 /\ y_size = 5

(***************************************************************************)
(* C5.  With an odd dimension smaller than 3 Maze::new either returns a    *)
(* maze with no walk performed or returns an error; it never crashes.      *)
(***************************************************************************)
C5_SmallNeverCrashes ==
    (x_size % 2 = 1 /\ y_size % 2 = 1 /\ (x_size < 3 \/ y_size < 3)) =>
        pc # "panic"

(***************************************************************************)
(* C6.  Maze::new(3, 3) performs no walk and returns the grid with (1,1)   *)
(* Path and every other cell Wall; for any valid grid, until the first     *)
(* walk starts exactly (1,1) is Path.                                      *)
(***************************************************************************)
C6_SeedOnlyBeforeFirstWalk ==
    /\ (x_size = 3 /\ y_size = 3) =>
          /\ walks = 0
          /\ pc = "done" => cells = SeedOnly
    /\ (ValidSizes /\ walks = 0 /\ pc \in {"enumerate", "shuffle", "loop", "done"})
          => cells = SeedOnly

C6_Witness ==
    pc = "done" /\ x_size = 3 /\ y_size = 3 /\ PathCells = {<<1, 1>>}

(***************************************************************************)
(* C7.  In every step a Path cell stays Path, and a step of a walk in      *)
(* progress (a random step or the loop erasure) changes no cell: the grid  *)
(* changes only when the loop-erased path is committed.                    *)
(***************************************************************************)
C7_WallToPathOnly ==
    [][/\ \A c \in DOMAIN cells :
             cells[c] = Path => (c \in DOMAIN cells' /\ cells'[c] = Path)
       /\ pc = "walk" => cells' = cells
       /\ (pc \in {"loop", "commit", "done"} /\ cells' # cells) =>
             (pc = "commit" /\ \A c \in DOMAIN cells :
                 cells'[c] # cells[c] => c \in Cells(random_walk))]_vars

C7_Witness ==
    pc = "commit" /\ walks >= 2 /\ Len(random_walk) >= 5

C9_ErasedWalkSimple ==
    /\ RawWalkComplete => NoRepeat(EraseLoops(random_walk))
    /\ pc = "commit" => NoRepeat(random_walk)

C9_Witness ==
    /\ RawWalkComplete
    /\ ~NoRepeat(random_walk)
    /\ Len(EraseLoops(random_walk)) >= 5

\* The erasure with the scan of j extended to the last index.
FindDupToEnd(w, i) ==
    LET J == {j \in (i + 1)..(Len(w) - 1) : At(w, j) = At(w, i)}
    IN  IF J = {} THEN -1 ELSE CHOOSE j \in J : \A k \in J : k <= j

RECURSIVE EraseFromToEnd(_, _)
EraseFromToEnd(w, i) ==
    IF i < Len(w)
       THEN CHOOSE r \in
               {EraseFromToEnd(IF j >= 0 THEN Drain(w, i, j) ELSE w, i + 1) :
                   j \in {FindDupToEnd(w, i)}} : TRUE
       ELSE w

(***************************************************************************)
(* C10.  The last cell of every raw walk is a Path cell of the grid the    *)
(* walk ran on and occurs at no earlier position, so a scan that includes  *)
(* the last index erases exactly what the scan up to len-1 erases.         *)
(***************************************************************************)
C10_LastCellFresh ==
    RawWalkComplete =>
        /\ random_walk[Len(random_walk)] \in PathCells
        /\ \A k \in 1..(Len(random_walk) - 1) :
              random_walk[k] # random_walk[Len(random_walk)]
        /\ EraseFromToEnd(random_walk, 0) = EraseLoops(random_walk)

C10_Witness ==
    RawWalkComplete /\ ~NoRepeat(random_walk) /\ walks >= 2

(***************************************************************************)
(* The first walk of a run, on grids up to FirstWalkMaxSize: the state     *)
(* right after the for loop has called generate_loop_erased_random_walk on *)
(* the first necessary cell of the shuffled list, then the walk itself.    *)
(***************************************************************************)

\* The odd sizes >= 3 explored.
FirstWalkSizes ==
    {s \in (3..FirstWalkMaxSize) \X (3..FirstWalkMaxSize) :
        s[1] % 2 = 1 /\ s[2] % 2 = 1}

\* The shuffled list with c first and the other cells in push order.
StartingWith(c, list) ==
    LET Other(e) == e # c
    IN  <<c>> \o SelectSeq(list, Other)

FirstWalkInit ==
    /\ \E s \in FirstWalkSizes : x_size = s[1] /\ y_size = s[2]
    /\ cells = [AllWall(x_size, y_size) EXCEPT ![SeedCell] = Path]
    /\ \E c \in Cells(EnumerateNecessary(x_size, y_size)) \ {SeedCell} :
          /\ necessary_cells =
                StartingWith(c, EnumerateNecessary(x_size, y_size))
          /\ random_walk = <<c>>
          /\ current_pos = c
    /\ idx = 1
    /\ walks = 1
    /\ pc = "walk"

FirstWalkNext ==
    \/ Step
    \/ Erase

FirstWalkSpec == FirstWalkInit /\ [][FirstWalkNext]_vars

\* The candidate list of node cell c in the grid of the state.
CandidatesOf(c) == generate_candidate_cells(<<x_size, y_size>>, c)

\* The node cells at distance 2 of c along one axis.
NodeNeighbours(c) ==
    {d \in NodeCells :
        \/ d[2] = c[2] /\ (d[1] = c[1] + 2 \/ c[1] = d[1] + 2)
        \/ d[1] = c[1] /\ (d[2] = c[2] + 2 \/ c[2] = d[2] + 2)}

C12_CandidatesWellFormed ==
    ValidSizes =>
        /\ \A c \in NodeCells :
              \A k \in 1..Len(CandidatesOf(c)) :
                  LET mid == CandidatesOf(c)[k][1]
                      dest == CandidatesOf(c)[k][2]
                  IN  /\ dest \in NodeCells
                      /\ dest[1] \in 1..(x_size - 2)
                      /\ dest[2] \in 1..(y_size - 2)
                      /\ dest \in NodeNeighbours(c)
                      /\ mid \in SeparatorCells
                      /\ 2 * mid[1] = c[1] + dest[1]
                      /\ 2 * mid[2] = c[2] + dest[2]
        /\ pc \in {"walk", "commit"} => current_pos \in NodeCells

C12_Witness ==
    /\ pc = "walk" /\ x_size = 7 /\ y_size = 5
    /\ Len(random_walk) >= 7
    /\ current_pos = <<5, 3>>

(***************************************************************************)
(* C13.  The commit of a walk raises the number of Path node cells by at   *)
(* least one; a walk is started only from a node cell that is Wall; so no  *)
(* run starts more walks than there are node cells minus one.              *)
(***************************************************************************)
C13_WalksProgress ==
    [][/\ (pc = "commit" /\ pc' = "loop") =>
             Cardinality(PathCells' \cap NodeCells)
                > Cardinality(PathCells \cap NodeCells)
       /\ walks' # walks =>
             /\ walks' = walks + 1
             /\ pc' = "walk"
             /\ current_pos' \in NodeCells
             /\ cells[current_pos'] = Wall
       /\ ValidSizes => walks' <= Cardinality(NodeCells) - 1]_vars

C13_Witness ==
    pc = "done" /\ x_size = 7 /\ y_size = 5 /\ walks = 5

(***************************************************************************)
(* C14.  Loop erasure is idempotent: erasing a sequence the erasure has    *)
(* produced, or a recorded sequence without a repeated coordinate, gives   *)
(* the same sequence back.                                                 *)
(***************************************************************************)
C14_ErasureIdempotent ==
    /\ pc = "walk" =>
          /\ EraseLoops(EraseLoops(random_walk)) = EraseLoops(random_walk)
          /\ NoRepeat(random_walk) => EraseLoops(random_walk) = random_walk
    /\ pc = "commit" => EraseLoops(random_walk) = random_walk

C14_Witness ==
    /\ pc = "walk" /\ x_size = 7
    /\ Len(random_walk) >= 9
    /\ EraseLoops(random_walk) # random_walk
    /\ Len(EraseLoops(random_walk)) >= 3

\* The necessary cells have been enumerated.
Enumerated == pc \in {"shuffle", "loop", "walk", "commit", "done"}

(***************************************************************************)
(* C15 as stated.  The number of node cells that Maze::new enumerates is   *)
(* ceil(width/2) * ceil(height/2).                                         *)
(***************************************************************************)
C15_CeilProduct ==
    Enumerated =>
        Len(necessary_cells) = ((x_size + 1) \div 2) * ((y_size + 1) \div 2)

(***************************************************************************)
(* C15 as amended.  Maze::new enumerates every cell with both coordinates  *)
(* odd exactly once, and they are floor(width/2) * floor(height/2).        *)
(***************************************************************************)
C15_FloorProduct ==
    Enumerated =>
        /\ Len(necessary_cells) = (x_size \div 2) * (y_size \div 2)
        /\ Cardinality(NodeCells) = (x_size \div 2) * (y_size \div 2)
        /\ Cells(necessary_cells) = NodeCells
        /\ NoRepeat(necessary_cells)

C15_Witness ==
    pc = "shuffle" /\ x_size = 7 /\ y_size = 5 /\ Len(necessary_cells) = 6

(***************************************************************************)
(* A whole run as a function of the order of the necessary cells and of    *)
(* the sequence of candidates chosen, one index of the candidate list per  *)
(* step of a walk.                                                         *)
(***************************************************************************)

\* The while loop of the random walk, choosing candidates as ch says; ok is
\* FALSE when ch ends before the walk does or names no candidate.
RECURSIVE RunWalk(_, _, _, _, _)
RunWalk(size, g, pos, w, ch) ==
    IF g[pos] = Path
       THEN [ok |-> TRUE, walk |-> w, rest |-> ch]
       ELSE LET cands == generate_candidate_cells(size, pos)
            IN  IF ch = << >> \/ Head(ch) > Len(cands)
                   THEN [ok |-> FALSE, walk |-> w, rest |-> ch]
                   ELSE RunWalk(size, g, cands[Head(ch)][2],
                                w \o <<cands[Head(ch)][1], cands[Head(ch)][2]>>,
                                Tail(ch))

\* The for loop over the necessary cells from position i on; ok is TRUE
\* when the loop ends having consumed exactly the choices ch.
RECURSIVE RunLoop(_, _, _, _, _)
RunLoop(size, g, order, i, ch) ==
    IF i > Len(order)
       THEN [ok |-> ch = << >>, grid |-> g]
       ELSE IF NeedsWalk(g, order[i])
               THEN LET r == RunWalk(size, g, order[i], <<order[i]>>, ch)
                    IN  IF r.ok
                           THEN RunLoop(size, MarkPath(g, EraseLoops(r.walk)),
                                        order, i + 1, r.rest)
                           ELSE [ok |-> FALSE, grid |-> g]
               ELSE RunLoop(size, g, order, i + 1, ch)

\* Maze::new after the shuffle has produced `order`.
RunMaze(size, order, ch) ==
    RunLoop(size, [AllWall(size[1], size[2]) EXCEPT ![SeedCell] = Path],
            order, 1, ch)

\* The sequences of choices explored.
ChoiceSeqs == UNION {[1..n -> 1..MaxChoiceValue] : n \in 0..MaxChoices}

\* The orders the shuffle can produce.
Orders ==
    LET list == EnumerateNecessary(x_size, y_size)
    IN  {[k \in 1..Len(list) |-> list[p[k]]] : p \in Permutations(1..Len(list))}

\* The grid is small enough for its runs to be computed.
RunsComputed ==
    ValidSizes /\ Cardinality(NodeCells) <= RunMaxNodes

\* g is a spanning tree of the node cells.
SpanningTree(g) ==
    LET paths == {c \in DOMAIN g : g[c] = Path}
    IN  /\ NodeCells \subseteq paths
        /\ NodeCells \subseteq Flood({SeedCell}, paths)
        /\ Cardinality(paths \ NodeCells) = Cardinality(NodeCells) - 1

(***************************************************************************)
(* C16 as stated.  The shuffle does not influence the result: a run that   *)
(* consumes the same sequence of step choices as this one, with the        *)
(* necessary cells in another order, returns the same grid.                *)
(***************************************************************************)
C16_OrderIrrelevant ==
    (pc = "done" /\ RunsComputed) =>
        \A ch \in ChoiceSeqs :
            LET mine == RunMaze(<<x_size, y_size>>, necessary_cells, ch)
            IN  (mine.ok /\ mine.grid = cells) =>
                    \A o \in Orders :
                        LET other == RunMaze(<<x_size, y_size>>, o, ch)
                        IN  other.ok => other.grid = cells

(***************************************************************************)
(* C16 as amended.  The shuffle does not influence correctness: for every  *)
(* order of the necessary cells and every sequence of step choices that    *)
(* completes the build, the returned grid is a spanning tree of the node   *)
(* cells.  (Which tree it is depends on the order.)                        *)
(***************************************************************************)
C16_EveryOrderGivesTree ==
    (pc = "shuffle" /\ RunsComputed) =>
        \A o \in Orders :
            \A ch \in ChoiceSeqs :
                LET run == RunMaze(<<x_size, y_size>>, o, ch)
                IN  run.ok => SpanningTree(run.grid)

C16_Witness ==
    /\ pc = "shuffle" /\ x_size = 5 /\ y_size = 5
    /\ \E o1, o2 \in Orders :
          \E ch \in ChoiceSeqs :
              /\ RunMaze(<<5, 5>>, o1, ch).ok
              /\ RunMaze(<<5, 5>>, o2, ch).ok
              /\ RunMaze(<<5, 5>>, o1, ch).grid # RunMaze(<<5, 5>>, o2, ch).grid

(***************************************************************************)
(* C17.  The loop-erased sequence a walk returns begins with the cell the  *)
(* walk started from, ends with a Path cell, and all its other cells are   *)
(* Wall when it is returned: it meets the maze at its last cell only.      *)
(***************************************************************************)
C17_ErasedWalkMeetsMazeAtEnd ==
    pc = "commit" =>
        /\ Len(random_walk) >= 3
        /\ random_walk[1] = necessary_cells[idx]
        /\ cells[random_walk[Len(random_walk)]] = Path
        /\ \A k \in 1..(Len(random_walk) - 1) : cells[random_walk[k]] = Wall

C17_Witness ==
    /\ pc = "commit" /\ walks >= 3
    /\ Len(random_walk) >= 5
    /\ random_walk[Len(random_walk)] # SeedCell

\* The node cells a separator cell lies between (none for a cell with both
\* coordinates even).
Ends(c) ==
    IF c[1] % 2 = 0 /\ c[2] % 2 = 1
       THEN {<<c[1] - 1, c[2]>>, <<c[1] + 1, c[2]>>}
       ELSE IF c[1] % 2 = 1 /\ c[2] % 2 = 0
               THEN {<<c[1], c[2] - 1>>, <<c[1], c[2] + 1>>}
               ELSE {}

(***************************************************************************)
(* C18.  Between walks the partial maze is a tree: every Path node cell is *)
(* joined to the seed (1,1) through Path cells, the Path separator cells   *)
(* are one fewer than the Path node cells, and a separator cell is Path    *)
(* only if both node cells it lies between are Path.                       *)
(***************************************************************************)
C18_PartialMazeIsTree ==
    (pc \in {"loop", "done"} /\ ValidSizes) =>
        /\ PathCells \cap NodeCells \subseteq Flood({SeedCell}, PathCells)
        /\ Cardinality(PathCells \cap SeparatorCells)
              = Cardinality(PathCells \cap NodeCells) - 1
        /\ \A c \in PathCells \cap SeparatorCells :
              Ends(c) # {} /\ Ends(c) \subseteq PathCells \cap NodeCells

C18_Witness ==
    /\ pc = "loop" /\ x_size = 7 /\ y_size = 5
    /\ walks = 2
    /\ idx <= Len(necessary_cells)
    /\ Cardinality(PathCells \cap NodeCells) = 4

(***************************************************************************)
(* C19.  For odd sizes >= 3, at every step of every walk that is started   *)
(* the candidate list is not empty, so the unwrap does not fail; in the    *)
(* 3x3 grid, whose only node has no candidate, no walk is started.         *)
(***************************************************************************)
C19_UnwrapNeverFails ==
    ValidSizes =>
        /\ pc # "panic"
        /\ (pc = "walk" /\ cells[current_pos] = Wall) =>
              Len(CandidatesOf(current_pos)) >= 1
        /\ (x_size = 3 /\ y_size = 3) =>
              /\ Len(CandidatesOf(SeedCell)) = 0
              /\ pc \notin {"walk", "commit"}

C19_Witness ==
    /\ pc = "walk" /\ x_size = 3 /\ y_size = 5
    /\ Len(random_walk) >= 3
    /\ Len(CandidatesOf(random_walk[1])) = 1

(***************************************************************************)
(* C20.  For odd sizes >= 3 every cell read or written lies inside the     *)
(* grid, and every Path cell lies in [1, width-2] x [1, height-2] and has  *)
(* an odd coordinate: the border cells and the cells with both coordinates *)
(* even stay Wall.                                                         *)
(***************************************************************************)
C20_AccessesInsideGrid ==
    ValidSizes =>
        /\ pc # "panic"
        /\ DOMAIN cells \in {{}, Coords}
        /\ Cells(necessary_cells) \subseteq Coords
        /\ Cells(random_walk) \subseteq Coords
        /\ pc \in {"walk", "commit"} => current_pos \in Coords
        /\ \A c \in PathCells \cup Cells(random_walk) :
              /\ c[1] \in 1..(x_size - 2)
              /\ c[2] \in 1..(y_size - 2)
              /\ c[1] % 2 = 1 \/ c[2] % 2 = 1

C20_Witness ==
    /\ pc = "done" /\ x_size = 5 /\ y_size = 7
    /\ <<3, 5>> \in PathCells
    /\ <<3, 4>> \in PathCells

====
